---- MODULE Spec2Model ----
(***************************************************************************)
(* A model of tools/codespace-client/server.js: the process-wide session   *)
(* state (appState), the set of server-sent-event channels (sseClients),   *)
(* the lifecycle handlers bound to the WhatsApp client, the HTTP request   *)
(* handler with its suspension points, and the shutdown sequence.          *)
(*                                                                         *)
(* Node runs every callback to completion on one thread, so each action    *)
(* below is one callback (or the part of an async handler between two      *)
(* awaits).  What the outside world supplies (event payloads, request      *)
(* lines, body chunks, results of the client's calls, the wall clock) is   *)
(* drawn from small sets.                                                  *)
(***************************************************************************)
EXTENDS Integers, Sequences, FiniteSets, TLC

\* ------------------------------------------------------------------ bounds

\* push connections (GET /events) the model opens, each a fresh response
MaxChannels == 2
\* pull requests the model handles, each a fresh request/response pair
MaxRequests == 1
\* broadcast calls (state and message publishes together)
MaxPublishes == 2
\* last value of the wall clock (milliseconds since the process started)
MaxClock == 1
\* keep-alive comments written to one channel
MaxKeepAlives == 1
\* 'data' events delivered to one request body
MaxChunks == 2
\* times the close callback of one channel runs
MaxCloses == 2
\* characters in the text of a limit query parameter
MaxLimitLen == 3
\* chats client.getChats() resolves with
MaxChats == 4
\* the configured MAX_CHAT_COUNT (100 unless the environment sets it)
MAX_CHAT_COUNT == 3

Channels == 1..MaxChannels
Requests == 1..MaxRequests

\* JavaScript's null (also standing for undefined where the code treats both alike)
NULL == "null"

\* ------------------------------------------------------------------ strings

\* The texts the model needs character by character (String.prototype.includes
\* looks inside them); every other string is an opaque token.
Chars(s) ==
    CASE s = "JSON" -> <<"J", "S", "O", "N">>
      [] s = "Payload too large" ->
            <<"P", "a", "y", "l", "o", "a", "d", " ", "t", "o", "o", " ",
              "l", "a", "r", "g", "e">>
      [] s = "Invalid JSON payload" ->
            <<"I", "n", "v", "a", "l", "i", "d", " ", "J", "S", "O", "N", " ",
              "p", "a", "y", "l", "o", "a", "d">>
      [] s = "Cannot destructure property 'chatId' of null" ->
            <<"C", "a", "n", "n", "o", "t", " ", "d", "e", "s", "t", "r", "u",
              "c", "t", "u", "r", "e", " ", "p", "r", "o", "p", "e", "r", "t",
              "y", " ", "'", "c", "h", "a", "t", "I", "d", "'", " ", "o", "f",
              " ", "n", "u", "l", "l">>
      [] s = "Evaluation failed" ->
            <<"E", "v", "a", "l", "u", "a", "t", "i", "o", "n", " ", "f", "a",
              "i", "l", "e", "d">>
      [] s = "Unexpected token in JSON" ->
            <<"U", "n", "e", "x", "p", "e", "c", "t", "e", "d", " ", "t", "o",
              "k", "e", "n", " ", "i", "n", " ", "J", "S", "O", "N">>
      [] s = "aborted" -> <<"a", "b", "o", "r", "t", "e", "d">>

\* haystack.includes(needle) on character sequences
Includes(haystack, needle) ==
    \E i \in 1..(Len(haystack) - Len(needle) + 1) :
        SubSeq(haystack, i, i + Len(needle) - 1) = needle

\* ------------------------------------------------------------------ inputs

Statuses ==
    {"starting", "qr", "authenticated", "ready", "auth_failure",
     "disconnected", "launch_error"}

\* payloads of the client's 'qr' event
QrCodes == {"QR1"}
\* what the 'ready' handler builds from client.info (null when client.info is unset)
Infos == {NULL, "INFO1"}
\* the argument of 'auth_failure' and of 'disconnected' (may be absent)
Reasons == {NULL, "REASON1"}
\* messages of the 'message_create' event
Messages == {"MSG1"}
\* messages of the errors the client's calls reject with
UpstreamErrors == {"Evaluation failed", "Unexpected token in JSON"}
\* messages of the errors client.initialize() rejects with
LaunchErrors == {"Failed to launch the browser process"}

\* ------------------------------------------------------------------ state

VARIABLES
    appState,     \* the appState object
    sseClients,   \* the sseClients set (of channels)
    initialize,   \* client.initialize(): "pending", "resolved" or "rejected"
    phase,        \* "running", "destroying" (shutdown awaits client.destroy()), "exited"
    conn,         \* per channel: "none", "open", "broken" (peer gone, 'close' pending), "closed"
    ended,        \* channels on which res.end() has been called
    keepAlive,    \* channels whose keep-alive interval is set
    wlog,         \* per channel: the retry hint and the events written to it, in order
    comments,     \* per channel: number of keep-alive comments written to it
    req,          \* per request: where its handler stands and what it answered
    publishLog,   \* history: every broadcast call, in order
    nUpdates,     \* history: number of updateState calls
    subAt,        \* history, per channel: Len(publishLog) when it was added to sseClients
    unsubAt,      \* history, per channel: Len(publishLog) when it was deleted from sseClients
    lateWrites,   \* history: channels written to when ended or closed
    everReady,    \* history: a 'ready' event has been handled
    lastEvent,    \* history: the last lifecycle event handled ("none" before the first)
    closeCalls    \* history, per channel: number of times its close callback has run

vars ==
    <<appState, sseClients, initialize, phase, conn, ended, keepAlive, wlog,
      comments, req, publishLog, nUpdates, subAt, unsubAt, lateWrites, everReady,
      lastEvent, closeCalls>>

sessionVars == <<appState, nUpdates, everReady, initialize, lastEvent>>
channelVars == <<sseClients, conn, ended, keepAlive, comments, subAt, unsubAt, closeCalls>>
writeVars == <<wlog, publishLog, lateWrites>>

\* ------------------------------------------------------------------ session state

\* the appState literal
InitialAppState ==
    [status |-> "starting", qr |-> NULL, info |-> NULL, authFailure |-> NULL,
     disconnectedReason |-> NULL, lastUpdateAt |-> 0]

publicState(s) ==
    [status |-> s.status, qr |-> s.qr, info |-> s.info,
     authFailure |-> s.authFailure, disconnectedReason |-> s.disconnectedReason,
     lastUpdateAt |-> s.lastUpdateAt]

\* an assignment that copies every key of partial but status
ObjectAssign_dropStatus(s, partial, now) ==
    [k \in DOMAIN s |->
        IF k = "lastUpdateAt" THEN now
        ELSE IF k \in DOMAIN partial /\ k # "status" THEN partial[k]
        ELSE s[k]]

\* Object.assign(appState, partial, { lastUpdateAt: now }): only the keys of
\* partial (and lastUpdateAt) are overwritten
ObjectAssign(s, partial, now) ==
    [k \in DOMAIN s |->
        IF k = "lastUpdateAt" THEN now
        ELSE IF k \in DOMAIN partial THEN partial[k]
        ELSE s[k]]

\* new Date(): the clock does not run backwards and may not have advanced
Now == appState.lastUpdateAt .. MaxClock

\* x || fallback for a string-or-absent x
OrDefault(x, fallback) == IF x = NULL \/ x = "" THEN fallback ELSE x

\* ------------------------------------------------------------------ channels

\* res.write reaches the peer only on a response that is open and not ended
Writable(c) == conn[c] = "open" /\ c \notin ended

\* the response has been ended (res.end()) or its connection has closed
Finished(c) == c \in ended \/ conn[c] = "closed"

StateEvent(data) == [event |-> "state", data |-> data]
RetryHint == [event |-> "retry", data |-> 2000]

\* the named events among the writes of a channel (not the retry hint)
IsEvent(w) == w.event \in {"state", "message"}
Events(log) == SelectSeq(log, IsEvent)

\* broadcast leaving its loop after the first member
broadcast_firstOnly(event, data) ==
    /\ Len(publishLog) < MaxPublishes
    /\ publishLog' = Append(publishLog, [event |-> event, data |-> data])
    /\ wlog' = [c \in Channels |->
                  IF c \in sseClients /\ \A b \in sseClients : c <= b
                  THEN Append(wlog[c], [event |-> event, data |-> data])
                  ELSE wlog[c]]
    /\ lateWrites' = lateWrites \cup {c \in sseClients : Finished(c)}

\* the broadcast loop: one res.write per member of sseClients
broadcast(event, data) ==
    /\ Len(publishLog) < MaxPublishes
    /\ publishLog' = Append(publishLog, [event |-> event, data |-> data])
    /\ wlog' = [c \in Channels |->
                  IF c \in sseClients
                  THEN Append(wlog[c], [event |-> event, data |-> data])
                  ELSE wlog[c]]
    /\ lateWrites' = lateWrites \cup {c \in sseClients : Finished(c)}

\* updateState broadcasting before it assigns
updateState_stale(partial, now) ==
    /\ appState' = ObjectAssign(appState, partial, now)
    /\ nUpdates' = nUpdates + 1
    /\ broadcast("state", publicState(appState))

updateState(partial, now) ==
    LET next == ObjectAssign(appState, partial, now) IN
    /\ appState' = next
    /\ nUpdates' = nUpdates + 1
    /\ broadcast("state", publicState(next))

\* ------------------------------------------------------------------ lifecycle handlers

Alive == phase # "exited"

OnQr ==
    \E qr \in QrCodes, now \in Now :
        /\ Alive
        /\ updateState([status |-> "qr", qr |-> qr, authFailure |-> NULL,
                        disconnectedReason |-> NULL], now)
        /\ lastEvent' = "qr"
        /\ UNCHANGED <<channelVars, req, phase, initialize, everReady>>

OnAuthenticated ==
    \E now \in Now :
        /\ Alive
        /\ updateState([status |-> "authenticated", qr |-> NULL,
                        authFailure |-> NULL], now)
        /\ lastEvent' = "authenticated"
        /\ UNCHANGED <<channelVars, req, phase, initialize, everReady>>

OnReady ==
    \E info \in Infos, now \in Now :
        /\ Alive
        /\ updateState([status |-> "ready", qr |-> NULL, info |-> info,
                        authFailure |-> NULL, disconnectedReason |-> NULL], now)
        /\ everReady' = TRUE
        /\ lastEvent' = "ready"
        /\ UNCHANGED <<channelVars, req, phase, initialize>>

OnAuthFailure ==
    \E message \in Reasons, now \in Now :
        /\ Alive
        /\ updateState([status |-> "auth_failure",
                        authFailure |-> OrDefault(message, "Authentication failed")],
                       now)
        /\ lastEvent' = "auth_failure"
        /\ UNCHANGED <<channelVars, req, phase, initialize, everReady>>

OnDisconnected ==
    \E reason \in Reasons, now \in Now :
        /\ Alive
        /\ updateState([status |-> "disconnected",
                        disconnectedReason |-> OrDefault(reason, "Unknown reason")],
                       now)
        /\ lastEvent' = "disconnected"
        /\ UNCHANGED <<channelVars, req, phase, initialize, everReady>>

\* serializeMessage is a projection of the message; the model keeps it opaque
serializeMessage(message) == message

\* a message_create handler that also stamps the session state
OnMessageCreate_touch ==
    \E message \in Messages, now \in Now :
        /\ Alive
        /\ broadcast("message", serializeMessage(message))
        /\ appState' = [appState EXCEPT !.lastUpdateAt = now]
        /\ UNCHANGED <<nUpdates, everReady, initialize, lastEvent, channelVars, req, phase>>

OnMessageCreate ==
    \E message \in Messages :
        /\ Alive
        /\ broadcast("message", serializeMessage(message))
        /\ UNCHANGED <<sessionVars, channelVars, req, phase>>

\* client.initialize() settles once; its rejection is the launch-failure path
InitializeResolved ==
    /\ Alive
    /\ initialize = "pending"
    /\ initialize' = "resolved"
    /\ UNCHANGED <<appState, nUpdates, everReady, lastEvent, channelVars, writeVars,
                   req, phase>>

InitializeRejected ==
    \E error \in LaunchErrors, now \in Now :
        /\ Alive
        /\ initialize = "pending"
        /\ initialize' = "rejected"
        /\ updateState([status |-> "launch_error", authFailure |-> error,
                        qr |-> NULL], now)
        /\ lastEvent' = "initialize_rejected"
        /\ UNCHANGED <<channelVars, req, phase, everReady>>

\* ------------------------------------------------------------------ push channels

Methods == {"GET", "POST"}
Paths ==
    {"/", "/events", "/api/state", "/api/chats", "/api/chats/C1/messages",
     "/api/send", "/health", "/api/unknown"}

\* the chain of if-statements of the request handler, first match wins
Route(method, pathname) ==
    IF method = "GET" /\ pathname = "/" THEN "index"
    ELSE IF method = "GET" /\ pathname = "/events" THEN "events"
    ELSE IF method = "GET" /\ pathname = "/api/state" THEN "state"
    ELSE IF method = "GET" /\ pathname = "/api/chats" THEN "chats"
    ELSE IF method = "GET" /\ pathname = "/api/chats/C1/messages" THEN "messages"
    ELSE IF method = "POST" /\ pathname = "/api/send" THEN "send"
    ELSE IF method = "GET" /\ pathname = "/health" THEN "health"
    ELSE "notfound"

\* GET /events without the initial state event
Subscribe_noSnapshot(c) ==
    /\ phase = "running"
    /\ conn[c] = "none"
    /\ \A b \in Channels : b < c => conn[b] # "none"
    /\ conn' = [conn EXCEPT ![c] = "open"]
    /\ sseClients' = sseClients \cup {c}
    /\ wlog' = [wlog EXCEPT ![c] = <<RetryHint>>]
    /\ keepAlive' = keepAlive \cup {c}
    /\ subAt' = [subAt EXCEPT ![c] = Len(publishLog)]
    /\ UNCHANGED <<sessionVars, ended, comments, unsubAt, publishLog, lateWrites,
                   req, phase, closeCalls>>

\* GET /events: retry hint, add to the set, current state, keep-alive interval
Subscribe(c) ==
    /\ phase = "running"
    /\ conn[c] = "none"
    /\ \A b \in Channels : b < c => conn[b] # "none"
    /\ \E method \in Methods, pathname \in Paths : Route(method, pathname) = "events"
    /\ conn' = [conn EXCEPT ![c] = "open"]
    /\ sseClients' = sseClients \cup {c}
    /\ wlog' = [wlog EXCEPT ![c] = <<RetryHint, StateEvent(publicState(appState))>>]
    /\ keepAlive' = keepAlive \cup {c}
    /\ subAt' = [subAt EXCEPT ![c] = Len(publishLog)]
    /\ UNCHANGED <<sessionVars, ended, comments, unsubAt, publishLog, lateWrites,
                   req, phase, closeCalls>>

\* the setInterval callback
KeepAliveTick(c) ==
    /\ Alive
    /\ c \in keepAlive
    /\ comments[c] < MaxKeepAlives
    /\ comments' = [comments EXCEPT ![c] = @ + 1]
    /\ lateWrites' = IF Finished(c) THEN lateWrites \cup {c} ELSE lateWrites
    /\ UNCHANGED <<sessionVars, sseClients, conn, ended, keepAlive, subAt, unsubAt,
                   wlog, publishLog, req, phase, closeCalls>>

\* the peer goes away (disconnect, network failure); Node has not yet emitted 'close'
ConnectionLost(c) ==
    /\ Alive
    /\ conn[c] = "open"
    /\ conn' = [conn EXCEPT ![c] = "broken"]
    /\ UNCHANGED <<sessionVars, sseClients, ended, keepAlive, comments, subAt,
                   unsubAt, writeVars, req, phase, closeCalls>>

\* a close callback that takes the channel's absence for a reason to reset the set
closeCallback_resetWhenAbsent(c) ==
    /\ keepAlive' = keepAlive \ {c}
    /\ sseClients' = IF c \in sseClients THEN sseClients \ {c} ELSE {}
    /\ unsubAt' = [unsubAt EXCEPT ![c] = IF c \in sseClients THEN Len(publishLog) ELSE @]
    /\ closeCalls' = [closeCalls EXCEPT ![c] = @ + 1]

\* the body of the req.on('close') callback: clearInterval(keepAlive) and
\* sseClients.delete(res)
closeCallback(c) ==
    /\ keepAlive' = keepAlive \ {c}
    /\ sseClients' = sseClients \ {c}
    /\ unsubAt' = [unsubAt EXCEPT ![c] = IF c \in sseClients THEN Len(publishLog) ELSE @]
    /\ closeCalls' = [closeCalls EXCEPT ![c] = @ + 1]

\* req.on('close'): emitted once the connection is gone or the response has ended
OnClose(c) ==
    /\ Alive
    /\ conn[c] = "broken" \/ (conn[c] = "open" /\ c \in ended)
    /\ conn' = [conn EXCEPT ![c] = "closed"]
    /\ closeCallback(c)
    /\ UNCHANGED <<sessionVars, ended, comments, subAt, writeVars, req, phase>>

\* the close callback run once more for a channel that is already gone
OnCloseAgain(c) ==
    /\ Alive
    /\ conn[c] = "closed"
    /\ closeCalls[c] < MaxCloses
    /\ closeCallback(c)
    /\ UNCHANGED <<sessionVars, conn, ended, comments, subAt, writeVars, req, phase>>

\* ------------------------------------------------------------------ shutdown

\* SIGINT/SIGTERM: server.close(), res.end() on every channel, then await client.destroy()
ShutdownBegin ==
    /\ phase = "running"
    /\ phase' = "destroying"
    /\ ended' = ended \cup sseClients
    /\ UNCHANGED <<sessionVars, sseClients, conn, keepAlive, comments, subAt,
                   unsubAt, closeCalls, writeVars, req>>

\* client.destroy() settled (either way): process.exit(0)
ShutdownExit ==
    /\ phase = "destroying"
    /\ phase' = "exited"
    /\ UNCHANGED <<sessionVars, channelVars, writeVars, req>>

\* ------------------------------------------------------------------ pull requests

\* body.length > 1_000_000 in readBody's 'data' callback
BODY_LIMIT == 1000000

\* sizes of the chunks a request body arrives in
ChunkLens == {64, BODY_LIMIT}

\* JavaScript values a parsed body can carry in a field
JsUndefined == [type |-> "undefined", value |-> NULL]
JsNull == [type |-> "null", value |-> NULL]
JsString(s) == [type |-> "string", value |-> s]
JsNumber(n) == [type |-> "number", value |-> NULL, num |-> n]
FieldValues(text) == {JsUndefined, JsString(""), JsString(text), JsNumber(7)}

Truthy(v) ==
    CASE v.type = "undefined" -> FALSE
      [] v.type = "null" -> FALSE
      [] v.type = "string" -> v.value # ""
      [] v.type = "number" -> v.num # 0

\* what a non-empty body text is to JSON.parse: not JSON at all, the JSON null,
\* or a value whose chatId and message properties are as given (a JSON number,
\* string or array reads as both undefined)
ParsedBodies ==
    {[kind |-> "malformed", chatId |-> JsUndefined, message |-> JsUndefined],
     [kind |-> "null", chatId |-> JsUndefined, message |-> JsUndefined]}
    \cup [kind : {"object"}, chatId : FieldValues("C1"), message : FieldValues("hello")]

\* no body read yet
NoBody == [kind |-> "none", chatId |-> JsUndefined, message |-> JsUndefined]

\* resolve({}) of an empty body
EmptyObject == [kind |-> "object", chatId |-> JsUndefined, message |-> JsUndefined]

\* ---- the limit query parameter of the history route

\* the characters a limit text is made of here
LimitAlphabet == {"0", "1", "5", "-", "+", ".", " ", "a"}
DecimalDigits == <<"0", "1", "2", "3", "4", "5", "6", "7", "8", "9">>

\* searchParams.get('limit'): null when the parameter is absent, else its text
NoLimit == [present |-> FALSE, text |-> <<>>]
LimitTexts == UNION {[1..n -> LimitAlphabet] : n \in 0..MaxLimitLen}
LimitParams == {NoLimit} \cup {[present |-> TRUE, text |-> t] : t \in LimitTexts}

\* JavaScript numbers: NaN, or the finite value num / den
NaN == [kind |-> "NaN", num |-> 0, den |-> 1]
Finite(n, d) == [kind |-> "finite", num |-> n, den |-> d]
NoNumber == [kind |-> "none", num |-> 0, den |-> 1]

IsDigit(ch) == \E i \in 1..10 : DecimalDigits[i] = ch
DigitValue(ch) == (CHOOSE i \in 1..10 : DecimalDigits[i] = ch) - 1
AllDigits(s) == \A i \in 1..Len(s) : IsDigit(s[i])

RECURSIVE DigitsValue(_)
DigitsValue(s) ==
    IF s = <<>> THEN 0
    ELSE 10 * DigitsValue(SubSeq(s, 1, Len(s) - 1)) + DigitValue(s[Len(s)])

RECURSIVE Pow10(_)
Pow10(n) == IF n = 0 THEN 1 ELSE 10 * Pow10(n - 1)

RECURSIVE TrimStart(_)
TrimStart(s) == IF s # <<>> /\ Head(s) = " " THEN TrimStart(Tail(s)) ELSE s

RECURSIVE TrimEnd(_)
TrimEnd(s) ==
    IF s # <<>> /\ s[Len(s)] = " " THEN TrimEnd(SubSeq(s, 1, Len(s) - 1)) ELSE s

\* an unsigned decimal literal: digits, digits '.' digits?, or '.' digits
UnsignedDecimal(u) ==
    LET dots == {i \in 1..Len(u) : u[i] = "."} IN
    IF dots = {}
    THEN IF u # <<>> /\ AllDigits(u) THEN Finite(DigitsValue(u), 1) ELSE NaN
    ELSE IF Cardinality(dots) > 1 THEN NaN
    ELSE LET i == CHOOSE d \in dots : TRUE
             whole == SubSeq(u, 1, i - 1)
             fraction == SubSeq(u, i + 1, Len(u))
         IN  IF AllDigits(whole) /\ AllDigits(fraction) /\ Len(whole) + Len(fraction) > 0
             THEN Finite(DigitsValue(whole) * Pow10(Len(fraction)) + DigitsValue(fraction),
                         Pow10(Len(fraction)))
             ELSE NaN

Negate(x) == [x EXCEPT !.num = 0 - @]

\* Number(text) for a text over LimitAlphabet: white space is trimmed, the empty
\* text is 0, a signed decimal literal is its value, anything else is NaN
StringToNumber(text) ==
    LET t == TrimEnd(TrimStart(text)) IN
    IF t = <<>> THEN Finite(0, 1)
    ELSE IF Head(t) = "-" THEN Negate(UnsignedDecimal(Tail(t)))
    ELSE IF Head(t) = "+" THEN UnsignedDecimal(Tail(t))
    ELSE UnsignedDecimal(t)

Less(x, y) == x.num * y.den < y.num * x.den
MathMin(x, y) == IF Less(y, x) THEN y ELSE x
MathMax(x, y) == IF Less(x, y) THEN y ELSE x

\* Number(parsedUrl.searchParams.get('limit') || 40)
requestedLimit(query) ==
    IF ~query.present \/ query.text = <<>> THEN Finite(40, 1)
    ELSE StringToNumber(query.text)

\* Number.isFinite(requestedLimit) ? Math.max(1, Math.min(requestedLimit, 100)) : 40
limit(query) ==
    LET x == requestedLimit(query) IN
    IF x.kind = "finite" THEN MathMax(Finite(1, 1), MathMin(x, Finite(100, 1)))
    ELSE Finite(40, 1)

\* ---- the chat list

\* chat.timestamp of the chats client.getChats() resolves with
Timestamps == {JsUndefined, JsNumber(3), JsNumber(5)}

\* the arrays client.getChats() resolves with (a chat's id is its place in the array)
ChatLists ==
    UNION {{[i \in 1..n |-> [id |-> i, timestamp |-> ts[i]]] : ts \in [1..n -> Timestamps]}
           : n \in 0..MaxChats}

\* x || 0 for a number-or-absent x
OrZero(v) == IF Truthy(v) THEN v.num ELSE 0

\* a comparator that puts the oldest chat first
compareChats_ascending(a, b) == OrZero(a.timestamp) - OrZero(b.timestamp)

\* the comparator (a, b) => (b.timestamp || 0) - (a.timestamp || 0)
compareChats(a, b) == OrZero(b.timestamp) - OrZero(a.timestamp)

\* Array.prototype.sort with compareChats (stable): each element goes behind
\* every element already placed that does not compare greater than it
RECURSIVE sort(_)
sort(chats) ==
    IF chats = <<>> THEN <<>>
    ELSE LET sorted == sort(SubSeq(chats, 1, Len(chats) - 1))
             x == chats[Len(chats)]
             p == Cardinality({i \in 1..Len(sorted) : compareChats(sorted[i], x) <= 0})
         IN  SubSeq(sorted, 1, p) \o <<x>> \o SubSeq(sorted, p + 1, Len(sorted))

\* .slice(0, end) for an end that is a count
slice(s, end) == SubSeq(s, 1, IF Len(s) < end THEN Len(s) ELSE end)

\* the fields of serializeChat the model keeps: id and timestamp || null
serializeChat(chat) ==
    [id |-> chat.id, timestamp |-> IF Truthy(chat.timestamp) THEN chat.timestamp ELSE JsNull]

\* chats.sort(...).slice(0, MAX_CHAT_COUNT).map(serializeChat)
sortedChats(chats) ==
    LET kept == slice(sort(chats), MAX_CHAT_COUNT) IN
    [i \in 1..Len(kept) |-> serializeChat(kept[i])]

IdleRequest ==
    [pc |-> "idle", method |-> NULL, path |-> NULL, entry |-> NULL,
     code |-> 0, error |-> NULL, bodyLen |-> 0, chunks |-> 0, body |-> NoBody,
     fault |-> NULL, calls |-> <<>>, at |-> <<>>, query |-> NoLimit,
     limit |-> NoNumber, chats |-> <<>>, sent |-> <<>>]

\* safeJson(res, statusCode, { error }) and the other res.end calls: the answer
Answer(q, statusCode, error) ==
    [q EXCEPT !.pc = "done", !.code = statusCode, !.error = error]

\* the handler invokes an operation of the client and awaits it
Await(q, operation) ==
    [q EXCEPT !.pc = operation, !.calls = Append(@, operation),
              !.at = Append(@, appState.status)]

NotReady(q) == Answer(q, 409, "Client is not ready yet.")

\* the catch block of POST /api/send
sendCatch(q, message) ==
    Answer([q EXCEPT !.fault = message],
           IF Includes(Chars(message), Chars("JSON")) THEN 400 ELSE 500,
           message)

\* the catch blocks of GET /api/chats and GET /api/chats/{id}/messages
readCatch(q, message) == Answer([q EXCEPT !.fault = message], 500, message)

\* POST /api/send once readBody has resolved with a parsed value
sendValidate(q, parsed) ==
    LET b == [q EXCEPT !.body = parsed] IN
    IF parsed.kind = "null"
    THEN sendCatch(b, "Cannot destructure property 'chatId' of null")
    ELSE IF ~Truthy(parsed.chatId) \/ parsed.chatId.type # "string"
    THEN Answer(b, 400, "chatId is required.")
    ELSE IF ~Truthy(parsed.message) \/ parsed.message.type # "string"
    THEN Answer(b, 400, "message is required.")
    ELSE Await(b, "sendMessage")

\* the handler with GET /api/chats not checking the status
handle_chatsUnchecked(q, method, pathname, query, status) ==
    LET route == Route(method, pathname)
        h == [q EXCEPT !.method = method, !.path = pathname, !.entry = status]
    IN  CASE route = "index" -> Answer(h, 200, NULL)
          [] route = "state" -> Answer(h, 200, NULL)
          [] route = "chats" -> Await(h, "getChats")
          [] route = "messages" ->
                IF status # "ready" THEN NotReady(h)
                ELSE Await([h EXCEPT !.query = query, !.limit = limit(query)],
                           "getChatById")
          [] route = "send" ->
                IF status # "ready" THEN NotReady(h)
                ELSE [h EXCEPT !.pc = "readBody"]
          [] route = "health" -> Answer(h, 200, NULL)
          [] route = "notfound" -> Answer(h, 404, "Not found")

\* the handler with GET /api/state answering 409 until the client is ready
handle_stateGated(q, method, pathname, query, status) ==
    LET route == Route(method, pathname)
        h == [q EXCEPT !.method = method, !.path = pathname, !.entry = status]
    IN  CASE route = "index" -> Answer(h, 200, NULL)
          [] route = "state" ->
                IF status # "ready" THEN NotReady(h) ELSE Answer(h, 200, NULL)
          [] route = "chats" ->
                IF status # "ready" THEN NotReady(h) ELSE Await(h, "getChats")
          [] route = "messages" ->
                IF status # "ready" THEN NotReady(h)
                ELSE Await([h EXCEPT !.query = query, !.limit = limit(query)],
                           "getChatById")
          [] route = "send" ->
                IF status # "ready" THEN NotReady(h)
                ELSE [h EXCEPT !.pc = "readBody"]
          [] route = "health" -> Answer(h, 200, NULL)
          [] route = "notfound" -> Answer(h, 404, "Not found")

\* the synchronous start of the request handler, up to its first await or answer
handle(q, method, pathname, query, status) ==
    LET route == Route(method, pathname)
        h == [q EXCEPT !.method = method, !.path = pathname, !.entry = status]
    IN  CASE route = "index" -> Answer(h, 200, NULL)
          [] route = "state" -> Answer(h, 200, NULL)
          [] route = "chats" ->
                IF status # "ready" THEN NotReady(h) ELSE Await(h, "getChats")
          [] route = "messages" ->
                IF status # "ready" THEN NotReady(h)
                ELSE Await([h EXCEPT !.query = query, !.limit = limit(query)],
                           "getChatById")
          [] route = "send" ->
                IF status # "ready" THEN NotReady(h)
                ELSE [h EXCEPT !.pc = "readBody"]
          [] route = "health" -> Answer(h, 200, NULL)
          [] route = "notfound" -> Answer(h, 404, "Not found")

pullFrame == <<sessionVars, channelVars, writeVars, phase>>

\* a request arrives: its method, its path and its limit parameter
Handler(r, paths, queries) ==
    \E method \in Methods, pathname \in paths, query \in queries :
        /\ phase = "running"
        /\ req[r].pc = "idle"
        /\ \A b \in Requests : b < r => req[b].pc # "idle"
        /\ Route(method, pathname) # "events"
        /\ req' = [req EXCEPT ![r] =
                      handle(@, method, pathname, query, appState.status)]
        /\ UNCHANGED pullFrame

\* any request, without a limit parameter
HandleRequest(r) == Handler(r, Paths, {NoLimit})

\* a history request with any limit parameter
HandleHistory(r) == Handler(r, {"/api/chats/C1/messages"}, LimitParams)

\* readBody's 'data' callback; a rejection resumes the handler in its catch block
BodyData(r) ==
    \E n \in ChunkLens :
        /\ Alive
        /\ req[r].pc = "readBody"
        /\ req[r].chunks < MaxChunks
        /\ LET q == [req[r] EXCEPT !.bodyLen = @ + n, !.chunks = @ + 1] IN
           req' = [req EXCEPT ![r] =
                      IF q.bodyLen > BODY_LIMIT
                      THEN sendCatch(q, "Payload too large")
                      ELSE q]
        /\ UNCHANGED pullFrame

\* readBody's 'end' callback, and the handler's continuation
BodyEnd(r) ==
    \E parsed \in ParsedBodies :
        /\ Alive
        /\ req[r].pc = "readBody"
        /\ req' = [req EXCEPT ![r] =
                      IF req[r].bodyLen = 0 THEN sendValidate(@, EmptyObject)
                      ELSE IF parsed.kind = "malformed"
                      THEN sendCatch([@ EXCEPT !.body = parsed], "Invalid JSON payload")
                      ELSE sendValidate(@, parsed)]
        /\ UNCHANGED pullFrame

\* readBody's req.on('error', reject)
BodyError(r) ==
    /\ Alive
    /\ req[r].pc = "readBody"
    /\ req' = [req EXCEPT ![r] = sendCatch(@, "aborted")]
    /\ UNCHANGED pullFrame

\* client.sendMessage settles
SendMessageResolved(r) ==
    /\ Alive
    /\ req[r].pc = "sendMessage"
    /\ req' = [req EXCEPT ![r] = Answer(@, 200, NULL)]
    /\ UNCHANGED pullFrame

SendMessageRejected(r) ==
    \E error \in UpstreamErrors :
        /\ Alive
        /\ req[r].pc = "sendMessage"
        /\ req' = [req EXCEPT ![r] = sendCatch(@, error)]
        /\ UNCHANGED pullFrame

\* client.getChats settles
GetChatsResolved(r) ==
    \E chats \in ChatLists :
        /\ Alive
        /\ req[r].pc = "getChats"
        /\ req' = [req EXCEPT ![r] =
                      Answer([@ EXCEPT !.chats = chats, !.sent = sortedChats(chats)],
                             200, NULL)]
        /\ UNCHANGED pullFrame

GetChatsRejected(r) ==
    \E error \in UpstreamErrors :
        /\ Alive
        /\ req[r].pc = "getChats"
        /\ req' = [req EXCEPT ![r] = readCatch(@, error)]
        /\ UNCHANGED pullFrame

\* client.getChatById settles; on success the handler goes on to chat.fetchMessages
GetChatByIdResolved(r) ==
    /\ Alive
    /\ req[r].pc = "getChatById"
    /\ req' = [req EXCEPT ![r] = Await(@, "fetchMessages")]
    /\ UNCHANGED pullFrame

GetChatByIdRejected(r) ==
    \E error \in UpstreamErrors :
        /\ Alive
        /\ req[r].pc = "getChatById"
        /\ req' = [req EXCEPT ![r] = readCatch(@, error)]
        /\ UNCHANGED pullFrame

\* chat.fetchMessages settles
FetchMessagesResolved(r) ==
    /\ Alive
    /\ req[r].pc = "fetchMessages"
    /\ req' = [req EXCEPT ![r] = Answer(@, 200, NULL)]
    /\ UNCHANGED pullFrame

FetchMessagesRejected(r) ==
    \E error \in UpstreamErrors :
        /\ Alive
        /\ req[r].pc = "fetchMessages"
        /\ req' = [req EXCEPT ![r] = readCatch(@, error)]
        /\ UNCHANGED pullFrame

\* ------------------------------------------------------------------ specification

\* the state when the server.listen callback has called client.initialize()
Init ==
    /\ appState = InitialAppState
    /\ sseClients = {}
    /\ initialize = "pending"
    /\ phase = "running"
    /\ conn = [c \in Channels |-> "none"]
    /\ ended = {}
    /\ keepAlive = {}
    /\ wlog = [c \in Channels |-> <<>>]
    /\ comments = [c \in Channels |-> 0]
    /\ req = [r \in Requests |-> IdleRequest]
    /\ publishLog = <<>>
    /\ nUpdates = 0
    /\ subAt = [c \in Channels |-> 0]
    /\ unsubAt = [c \in Channels |-> 0]
    /\ lateWrites = {}
    /\ everReady = FALSE
    /\ lastEvent = "none"
    /\ closeCalls = [c \in Channels |-> 0]

\* the client's events and the settling of client.initialize()
Session ==
    \/ OnQr
    \/ OnAuthenticated
    \/ OnReady
    \/ OnAuthFailure
    \/ OnDisconnected
    \/ OnMessageCreate
    \/ InitializeResolved
    \/ InitializeRejected

\* GET /events, its connections, and the shutdown sequence
Push ==
    \/ \E c \in Channels : Subscribe(c)
    \/ \E c \in Channels : ConnectionLost(c)
    \/ \E c \in Channels : OnClose(c)
    \/ ShutdownBegin
    \/ ShutdownExit

\* every other request, with the callbacks that resume its handler
Pull ==
    \/ \E r \in Requests : HandleRequest(r)
    \/ \E r \in Requests : BodyData(r)
    \/ \E r \in Requests : BodyEnd(r)
    \/ \E r \in Requests : BodyError(r)
    \/ \E r \in Requests : SendMessageResolved(r)
    \/ \E r \in Requests : SendMessageRejected(r)
    \/ \E r \in Requests : GetChatsResolved(r)
    \/ \E r \in Requests : GetChatsRejected(r)
    \/ \E r \in Requests : GetChatByIdResolved(r)
    \/ \E r \in Requests : GetChatByIdRejected(r)
    \/ \E r \in Requests : FetchMessagesResolved(r)
    \/ \E r \in Requests : FetchMessagesRejected(r)

\* the session and its push channels
Next == Session \/ Push

Spec == Init /\ [][Next]_vars

\* the same with the keep-alive timers running
NextTimers == Next \/ \E c \in Channels : KeepAliveTick(c)

SpecTimers == Init /\ [][NextTimers]_vars

\* the same with close callbacks that run a second time
NextReclose == Next \/ \E c \in Channels : OnCloseAgain(c)

SpecReclose == Init /\ [][NextReclose]_vars

\* history requests against a session that becomes ready
NextLimit ==
    \/ OnReady
    \/ \E r \in Requests : HandleHistory(r)
    \/ \E r \in Requests : GetChatByIdResolved(r)
    \/ \E r \in Requests : GetChatByIdRejected(r)
    \/ \E r \in Requests : FetchMessagesResolved(r)
    \/ \E r \in Requests : FetchMessagesRejected(r)

SpecLimit == Init /\ [][NextLimit]_vars

\* the session, the pull requests and one push channel with its timer
FirstChannel == {1}

NextFrame ==
    \/ Session
    \/ Pull
    \/ \E c \in FirstChannel : Subscribe(c)
    \/ \E c \in FirstChannel : KeepAliveTick(c)
    \/ \E c \in FirstChannel : ConnectionLost(c)
    \/ \E c \in FirstChannel : OnClose(c)

SpecFrame == Init /\ [][NextFrame]_vars

\* the session and the pull requests
NextPull == Session \/ Pull

SpecPull == Init /\ [][NextPull]_vars

\* ------------------------------------------------------------------ properties

TypeOK ==
    /\ appState.status \in Statuses
    /\ sseClients \subseteq Channels
    /\ initialize \in {"pending", "resolved", "rejected"}
    /\ phase \in {"running", "destroying", "exited"}
    /\ conn \in [Channels -> {"none", "open", "broken", "closed"}]
    /\ ended \subseteq Channels
    /\ keepAlive \subseteq Channels
    /\ comments \in [Channels -> 0..MaxKeepAlives]
    /\ Len(publishLog) <= MaxPublishes
    /\ nUpdates \in 0..MaxPublishes
    /\ lateWrites \subseteq Channels
    /\ everReady \in BOOLEAN
    /\ closeCalls \in [Channels -> 0..MaxCloses]
    /\ lastEvent \in {"none", "qr", "authenticated", "ready", "auth_failure",
                      "disconnected", "initialize_rejected"}

IsStatePublish(p) == p.event = "state"
StatePublishes == SelectSeq(publishLog, IsStatePublish)

\* the snapshot after the first n publishes: the payload of the last 'state'
\* publish among them, the initial state if there is none
SnapshotAt(n) ==
    LET before == SelectSeq(SubSeq(publishLog, 1, n), IsStatePublish) IN
    IF before = <<>> THEN publicState(InitialAppState)
    ELSE before[Len(before)].data

\* C1: every updateState call (from a lifecycle handler or the launch-failure
\* path) makes exactly one 'state' broadcast, within the same step, whose
\* payload is the state the call has just stored: there are as many 'state'
\* broadcasts as updates, the latest carries the current state, and the state
\* is the initial one as long as nothing was broadcast.
C1_UpdateThenOneStateBroadcast ==
    /\ Len(StatePublishes) = nUpdates
    /\ nUpdates = 0 => appState = InitialAppState
    /\ nUpdates > 0 => StatePublishes[nUpdates].data = publicState(appState)

\* two updates, the second from the launch-failure path, with a channel attached
C1_Witness ==
    /\ nUpdates = 2
    /\ appState.status = "launch_error"
    /\ sseClients # {}

\* C2: the qr payload is non-null only while status = qr.
C2_QrOnlyWhileStatusQr == appState.qr # NULL => appState.status = "qr"

\* a 'ready' publish that no later 'disconnected' or 'auth_failure' publish follows
ReadyStands ==
    \E i \in 1..Len(publishLog) :
        /\ publishLog[i].event = "state"
        /\ publishLog[i].data.status = "ready"
        /\ \A j \in (i + 1)..Len(publishLog) :
              publishLog[j].event = "state" =>
                  publishLog[j].data.status \notin {"disconnected", "auth_failure"}

\* C3: session info is non-null only if a ready event has occurred and no
\* disconnected or auth_failure event has been applied since; it is null
\* whenever status is disconnected or auth_failure.
C3_InfoOnlyWhileReadyStands ==
    /\ appState.info # NULL => ReadyStands
    /\ appState.status \in {"disconnected", "auth_failure"} => appState.info = NULL

\* C4: a publish writes to every registered channel, and a channel whose write
\* fails (its response is no longer writable) is removed from the subscriber
\* set by that publish.
C4_FailedWriteIsolatedAndUnsubscribed ==
    [][Len(publishLog') > Len(publishLog) =>
          \A c \in sseClients :
              /\ Events(wlog'[c]) = Append(Events(wlog[c]), publishLog'[Len(publishLog')])
              /\ ~Writable(c) => c \notin sseClients']_vars

\* C5: the events written to a channel are exactly the snapshot current when it
\* subscribed followed by every publish made while it is in the subscriber set,
\* in publish order (so a channel that joined after a publish never gets it).
C5_SnapshotThenPublishesInOrder ==
    \A c \in Channels :
        conn[c] # "none" =>
            Events(wlog[c]) =
                <<StateEvent(SnapshotAt(subAt[c]))>>
                \o SubSeq(publishLog, subAt[c] + 1,
                          IF c \in sseClients THEN Len(publishLog) ELSE unsubAt[c])

\* one channel attached from the start, another that joined between two publishes
C5_Witness ==
    /\ Len(publishLog) = 2
    /\ \E c, d \in sseClients :
          /\ subAt[c] = 0 /\ Len(Events(wlog[c])) = 3
          /\ subAt[d] = 1 /\ Len(Events(wlog[d])) = 2

\* C6: the step that subscribes a channel writes it, as its first event, a
\* 'state' event equal to the current snapshot, however many publishes came
\* before; the first event of a channel never changes afterwards.
C6_SubscribeWritesSnapshotFirst ==
    [][\A c \in Channels :
          /\ (conn[c] = "none" /\ conn'[c] # "none") =>
                /\ c \in sseClients'
                /\ Events(wlog'[c]) = <<StateEvent(publicState(appState))>>
                /\ appState' = appState
          /\ conn[c] # "none" =>
                /\ Events(wlog'[c]) # <<>>
                /\ Head(Events(wlog'[c])) = Head(Events(wlog[c]))]_vars

\* a channel that joined after every publish the model allows
C6_Witness ==
    \E c \in sseClients :
        /\ subAt[c] = MaxPublishes
        /\ appState.status # "starting"
        /\ Head(Events(wlog[c])) = StateEvent(publicState(appState))

RouteOf(q) == Route(q.method, q.path)
Handled(q) == q.pc # "idle"

\* C7: a chat-list, history or send request handled while the status is not
\* ready is answered 409 'Client is not ready yet.' without any call to the
\* client; a chat-list request is answered 200 only after a ready event.
C7_NotReadyMeans409AndNoCall ==
    \A r \in Requests :
        /\ (Handled(req[r]) /\ RouteOf(req[r]) \in {"chats", "messages", "send"}
                /\ req[r].entry # "ready") =>
              /\ req[r].pc = "done"
              /\ req[r].code = 409
              /\ req[r].error = "Client is not ready yet."
              /\ req[r].calls = <<>>
        /\ (Handled(req[r]) /\ RouteOf(req[r]) = "chats" /\ req[r].code = 200) =>
              everReady

\* a chat-list request refused after the session went from ready to disconnected
C7_Witness ==
    \E r \in Requests :
        /\ RouteOf(req[r]) = "chats"
        /\ req[r].entry = "disconnected"
        /\ everReady
        /\ req[r].code = 409

\* C8 as stated: every GET other than '/', '/events' and '/health' handled
\* while the status is not ready is answered 409 'Client is not ready yet.'.
C8_EveryOtherGetNotReady409 ==
    \A r \in Requests :
        (Handled(req[r]) /\ req[r].method = "GET"
            /\ req[r].path \notin {"/", "/events", "/health"}
            /\ req[r].entry # "ready") =>
                /\ req[r].code = 409
                /\ req[r].error = "Client is not ready yet."

\* C8 as amended: GET /api/chats and GET /api/chats/{id}/messages handled while
\* the status is not ready are answered 409 'Client is not ready yet.'; GET
\* /api/state is answered 200 and an unrouted GET 404 'Not found' in every status.
C8_GatedGetsNotReady409 ==
    \A r \in Requests :
        (Handled(req[r]) /\ req[r].method = "GET") =>
            /\ (req[r].path \in {"/api/chats", "/api/chats/C1/messages"}
                    /\ req[r].entry # "ready") =>
                  req[r].code = 409 /\ req[r].error = "Client is not ready yet."
            /\ req[r].path = "/api/state" =>
                  req[r].code = 200 /\ req[r].error = NULL
            /\ req[r].path \in {"/api/unknown", "/api/send"} =>
                  req[r].code = 404 /\ req[r].error = "Not found"

\* the state read before the client is ready
C8_Witness ==
    \E r \in Requests :
        /\ req[r].method = "GET"
        /\ req[r].path = "/api/state"
        /\ req[r].entry = "qr"
        /\ req[r].code = 200

\* C9: a send request (handled while ready) whose body is oversized (more than
\* 1,000,000 characters) or is not JSON is answered 400, never 500.
C9_BadBodyIs400 ==
    \A r \in Requests :
        (RouteOf(req[r]) = "send" /\ req[r].pc = "done" /\ req[r].entry = "ready"
            /\ (req[r].bodyLen > BODY_LIMIT
                \/ req[r].body.kind = "malformed")) =>
                req[r].code = 400

\* no operation of the client is invoked twice by one request
NoRetry(q) ==
    \A i, j \in 1..Len(q.calls) : q.calls[i] = q.calls[j] => i = j

\* C10: a request whose call to the client failed is answered 500 with the
\* failure's message, whatever the message, and no call is made twice.
C10_UpstreamFailureIs500 ==
    \A r \in Requests :
        /\ NoRetry(req[r])
        /\ (req[r].pc = "done" /\ req[r].fault \in UpstreamErrors) =>
              req[r].code = 500 /\ req[r].error = req[r].fault

IsNonEmptyString(v) == v.type = "string" /\ v.value # ""

\* C11: a send request handled while ready and answered after its body was read
\* validates in a fixed order: a body without a non-empty string chatId is
\* answered 400 'chatId is required.'; otherwise one without a non-empty string
\* message 400 'message is required.'; a body that is not JSON 400; and in all
\* of these cases client.sendMessage is not invoked.
C11_SendValidatesInOrder ==
    \A r \in Requests :
        (RouteOf(req[r]) = "send" /\ req[r].entry = "ready"
            /\ req[r].body.kind # "none") =>
            LET b == req[r].body IN
            /\ (b.kind \in {"object", "null"} /\ ~IsNonEmptyString(b.chatId)) =>
                  /\ req[r].code = 400
                  /\ req[r].error = "chatId is required."
                  /\ req[r].calls = <<>>
            /\ (b.kind = "object" /\ IsNonEmptyString(b.chatId)
                    /\ ~IsNonEmptyString(b.message)) =>
                  /\ req[r].code = 400
                  /\ req[r].error = "message is required."
                  /\ req[r].calls = <<>>
            /\ b.kind = "malformed" =>
                  req[r].code = 400 /\ req[r].calls = <<>>

\* C12: the subscriber set is exactly the set of push connections that have
\* opened /events and not yet closed, and no channel that has been ended or
\* closed is in it.
C12_SubscribersAreTheOpenConnections ==
    /\ sseClients = {c \in Channels : conn[c] \in {"open", "broken"}}
    /\ \A c \in sseClients : ~Finished(c)

\* the status each lifecycle event stands for
ImpliedStatus(event) ==
    CASE event = "none" -> "starting"
      [] event = "initialize_rejected" -> "launch_error"
      [] OTHER -> event

\* C13: after any sequence of lifecycle events the status is the one implied by
\* the last event applied (launch_error for a failed initialization), it is
\* 'starting' if none has been applied, and it is one of the seven values.
C13_StatusIsThatOfLastEvent ==
    /\ appState.status \in Statuses
    /\ Cardinality(Statuses) = 7
    /\ appState.status = ImpliedStatus(lastEvent)

\* a session that became ready and was then disconnected
C13_Witness ==
    /\ everReady
    /\ nUpdates = 2
    /\ lastEvent = "disconnected"
    /\ appState.status = "disconnected"

\* the request reached chat.fetchMessages({ limit })
FetchedWithLimit(q) == \E i \in 1..Len(q.calls) : q.calls[i] = "fetchMessages"

\* an integer numeral: an optional minus sign and then digits only
IsIntegerText(t) ==
    /\ t # <<>>
    /\ LET digits == IF Head(t) = "-" THEN Tail(t) ELSE t IN
       digits # <<>> /\ AllDigits(digits)

IntegerOf(t) ==
    IF Head(t) = "-" THEN 0 - DigitsValue(Tail(t)) ELSE DigitsValue(t)

\* a text with no digit in it is no number
IsNonNumericText(t) == t # <<>> /\ \A i \in 1..Len(t) : ~IsDigit(t[i])

Clamp(n) == IF n < 1 THEN 1 ELSE IF n > 100 THEN 100 ELSE n

\* C14: the limit passed to fetchMessages is always an integer in [1, 100]; an
\* absent or empty limit gives 40, a non-numeric limit gives 40, and an integer
\* limit n gives max(1, min(n, 100)) (so 0 or less gives 1, more than 100 gives 100).
C14_LimitIsClampedInteger ==
    \A r \in Requests :
        FetchedWithLimit(req[r]) =>
            LET q == req[r].query
                l == req[r].limit
            IN  /\ l.kind = "finite"
                /\ l.num % l.den = 0
                /\ l.den <= l.num /\ l.num <= 100 * l.den
                /\ (~q.present \/ q.text = <<>>) => l = Finite(40, 1)
                /\ (q.present /\ IsNonNumericText(q.text)) => l = Finite(40, 1)
                /\ (q.present /\ IsIntegerText(q.text)) =>
                      l = Finite(Clamp(IntegerOf(q.text)), 1)

\* the request was answered 200 by the chat-list route
ChatsAnswered(q) == RouteOf(q) = "chats" /\ q.pc = "done" /\ q.code = 200

\* the rank of a chat: its timestamp, 0 when it has none
Rank(timestamp) == IF timestamp.type = "number" THEN timestamp.num ELSE 0

\* C15: the chat list answered while ready is in descending order of timestamp
\* with a missing timestamp counted as 0, holds at most MAX_CHAT_COUNT chats, and
\* holds the highest-ranked chats of the full list.
C15_ChatsSortedTruncatedTopRanked ==
    \A r \in Requests :
        ChatsAnswered(req[r]) =>
            LET all == req[r].chats
                out == req[r].sent
                outIds == {out[i].id : i \in 1..Len(out)}
            IN  /\ req[r].entry = "ready"
                /\ \A i, j \in 1..Len(out) :
                      i < j => Rank(out[i].timestamp) >= Rank(out[j].timestamp)
                /\ Len(out) = IF Len(all) < MAX_CHAT_COUNT THEN Len(all) ELSE MAX_CHAT_COUNT
                /\ Cardinality(outIds) = Len(out)
                /\ \A i \in 1..Len(out) :
                      \E k \in 1..Len(all) :
                          /\ all[k].id = out[i].id
                          /\ Rank(all[k].timestamp) = Rank(out[i].timestamp)
                /\ \A k \in 1..Len(all) :
                      all[k].id \notin outIds =>
                          \A i \in 1..Len(out) :
                              Rank(out[i].timestamp) >= Rank(all[k].timestamp)

\* timestamps [5, none, 3, 3] answered as the chats with 5, 3 and 3: the list is
\* reordered, the chat without a timestamp is the one cut off
C15_Witness ==
    \E r \in Requests :
        /\ ChatsAnswered(req[r])
        /\ Len(req[r].chats) = 4
        /\ req[r].chats[1].timestamp = JsNumber(5)
        /\ req[r].chats[2].timestamp = JsUndefined
        /\ req[r].chats[3].timestamp = JsNumber(3)
        /\ req[r].chats[4].timestamp = JsNumber(3)
        /\ req[r].sent = <<[id |-> 1, timestamp |-> JsNumber(5)],
                           [id |-> 3, timestamp |-> JsNumber(3)],
                           [id |-> 4, timestamp |-> JsNumber(3)]>>

\* C16: running the close callback again for a channel that is already gone
\* leaves the subscriber set, the timers and everything written as they were,
\* and every open channel goes on to receive every publish made since it
\* subscribed.
C16_SecondCloseChangesNothing ==
    /\ [][\A c \in Channels :
            OnCloseAgain(c) =>
                UNCHANGED <<sseClients, keepAlive, conn, ended, wlog, publishLog,
                            appState, unsubAt>>]_vars
    /\ [](\A d \in Channels :
            conn[d] = "open" =>
                /\ d \in sseClients
                /\ Events(wlog[d]) =
                      <<StateEvent(SnapshotAt(subAt[d]))>>
                      \o SubSeq(publishLog, subAt[d] + 1, Len(publishLog)))

\* the first channel's close callback has run twice, and the second channel,
\* still open, has received the publish made after the first channel left
C16_Witness ==
    /\ closeCalls[1] = 2
    /\ conn[2] = "open" /\ 2 \in sseClients
    /\ unsubAt[1] < Len(publishLog)
    /\ subAt[2] <= unsubAt[1]
    /\ Len(Events(wlog[2])) = 1 + Len(publishLog) - subAt[2]

\* a step of a request handler, of a subscription or its end, of a keep-alive
\* timer, or the publish of a 'message' event
IsNonLifecycleStep ==
    \/ req' # req
    \/ sseClients' # sseClients
    \/ conn' # conn
    \/ comments' # comments
    \/ /\ Len(publishLog') > Len(publishLog)
       /\ publishLog'[Len(publishLog')].event = "message"

\* C17: the session state changes only in a lifecycle handler or on the failure
\* of initialization: a message_create event, a step of any request (state,
\* chats, history, send, subscribe, unsubscribe) and a keep-alive tick leave
\* every field of it, lastUpdateAt included, as it was.
C17_OnlyLifecycleChangesSessionState ==
    [][/\ IsNonLifecycleStep => appState' = appState
       /\ appState' # appState => (nUpdates' = nUpdates + 1 /\ lastEvent' # "none")]_vars

\* a ready session that has published a message, answered a request, lost its
\* subscriber after a keep-alive tick, and still carries the state of 'ready'
C17_Witness ==
    /\ appState.status = "ready" /\ nUpdates = 1
    /\ \E i \in 1..Len(publishLog) : publishLog[i].event = "message"
    /\ req[1].pc = "done" /\ req[1].code = 200
    /\ conn[1] = "closed" /\ comments[1] = 1

\* the 'state' events among the writes of a channel
StateWrites(c) == SelectSeq(wlog[c], IsStatePublish)

\* C18: between callbacks, the last 'state' event written to each channel of the
\* subscriber set is the current snapshot of the session state.
C18_SubscribersHoldCurrentState ==
    \A c \in sseClients :
        /\ StateWrites(c) # <<>>
        /\ StateWrites(c)[Len(StateWrites(c))].data = publicState(appState)

\* a channel that subscribed after the first update and was then written the
\* second one
C18_Witness ==
    \E c \in sseClients :
        /\ subAt[c] = 1
        /\ nUpdates = 2
        /\ Len(StateWrites(c)) = 2
        /\ StateWrites(c)[1].data # StateWrites(c)[2].data

\* C19: whenever a request handler invokes an operation of the external session
\* (getChats, getChatById, fetchMessages, sendMessage) the status is ready at
\* that instant.
C19_ReadyAtEveryInvocation ==
    \A r \in Requests :
        \A i \in 1..Len(req[r].at) : req[r].at[i] = "ready"

\* C20: no 'state' event, 'message' event or keep-alive comment is written to a
\* channel once shutdown has ended it or its connection has closed.
C20_NoWriteAfterEndOrClose == lateWrites = {}

====
